---- MODULE Spec2Model ----
(***************************************************************************)
(* Model of the word placement engine of wordcloud.go: the concurrent      *)
(* nearest-position search (Wordcloud.nextPos), the ring test              *)
(* (Wordcloud.testRadius), one placement (Wordcloud.Place) and the driving *)
(* loop (Wordcloud.Draw).                                                  *)
(*                                                                         *)
(* Lengths are whole pixels.  The measured word sizes offered to the model *)
(* make width/2, height/2 and 0.3*height whole numbers, so the float64     *)
(* arithmetic of the source is exact on integers.                          *)
(*                                                                         *)
(* The specifications share the definitions of Place:                     *)
(*   Spec        Place called by an arbitrary caller, with nextPos         *)
(*               modelled goroutine by goroutine (dispatcher, workers,     *)
(*               aggregator, deferred shutdown, purger) on small canvases; *)
(*   SpecDraw    the Draw loop, where a call of nextPos is one step whose  *)
(*               result is the one the aggregator computes (scanNextPos),  *)
(*               on canvases large enough for the tall-glyph branch;       *)
(*   SpecRandom  the Draw loop in random placement mode (nextRandom,       *)
(*               attempt by attempt), with SetHook and a word list that    *)
(*               asks for more font sizes than the font cache admits;      *)
(*   SpecSizing  NewWordcloud's sizing pass, iteration by iteration, over  *)
(*               sorted and unsorted count lists.                          *)
(* FairSpec is Spec with weak fairness of every goroutine.                 *)
(***************************************************************************)
EXTENDS Integers, Sequences, FiniteSets, TLC

\* ------------------------------------------------------------------ bounds
\* runtime.NumCPU(): number of workers and capacity of workCh.
NumCPU == 2
\* Capacity of the results channel aggCh (100 in the source), scaled down.
AggCap == 2
\* Length of the word list under Spec and under SpecDraw.
SearchWords == 2
NumWords == 17
\* Entries w.fonts may hold before setFont refuses a new size (100 in the
\* source), scaled down.
FontCap == 2
\* nextRandom's attempt budget (5,000,000 in the source), scaled down.
MaxTries == 3
\* NewWordcloud's sizing pass: longest word list and largest count offered.
SizingWords == 4
MaxCount == 3
\* Length of the word list under SpecRandom.
RandomWords == 4

\* ------------------------------------------------------- program constants
FirstRadius == 1
RadiusStep == 5
MaxMisses == 10
WordPadding == 5
PreciseHeight == 40
ScanStep == 5

\* --------------------------------------------------------------- inputs
\* Canvases (opts.Width, opts.Height) of the concurrent specification.
Canvases == { <<18, 10>> }
\* Canvases of the Draw specification.
DrawCanvases == { <<48, 10>>, <<12, 32>>, <<12, 50>> }
\* What MeasureString returns for a word at its font size, <<width, height>>:
\* a small, a wide and a tall word.
Small == << 1, 5 >>
Wide == << 5, 5 >>
Tall == << 1, 45 >>
\* The word lists of the concurrent specification: sorted by count, so the
\* words shrink along the list: wide words, then small words.
WordLists(n) ==
    { [k \in 1 .. n |-> IF k <= b THEN Wide ELSE Small] : b \in 0 .. n }
\* The word lists of the Draw specification: sorted by count, so the words
\* shrink along the list: tall words, then wide words, then small words.
DrawWordLists(n) ==
    { [k \in 1 .. n |-> IF k <= a THEN Tall ELSE IF k <= b THEN Wide ELSE Small] :
        a \in 0 .. n, b \in 0 .. n }

VARIABLES
    width, height,      \* w.width, w.height: the canvas
    radii,              \* w.radii: the ring radii, increasing
    grid,               \* w.grid: the rectangles added, in insertion order
    maskLen,            \* how many of them NewWordcloud added (opts.Mask)
    Pos, Rect, FontSize, \* sortedWordList columns
    measures,           \* MeasureString's result for each word of the list
    mainpc,             \* position of the goroutine that calls Place
    idx,                \* Place's argument
    wordW, wordH,       \* Place's width and height (measured + 5)
    stopSendingCh,      \* tokens in stopSendingCh (capacity 1)
    aggCh,              \* results in flight (capacity AggCap)
    workCh,             \* radii in flight (capacity NumCPU)
    workClosed,         \* close(workCh) has happened
    closeCount,         \* how many times close(workCh) was executed
    results, done,      \* the aggregator's maps
    stopChannels,       \* tokens in each worker's stop channel
    stopIdx,            \* position of the deferred loop over stopChannels
    wpc, wdata,         \* each worker: position, ring received
    wg,                 \* the WaitGroup counter
    dpc, dnext,         \* dispatcher: position, index of the next radius
    ppc,                \* purger goroutine: position
    ret,                \* nextPos's results x, y, space (and the radius)
    placed,             \* Place's return value
    lastGrid,           \* w.grid when the current Place call began
    lastWords,          \* Pos, Rect, FontSize when it began
    ink,                \* what the pixel scan of the current word will see
    i, consecutiveMisses, \* Draw's loop state
    drawpc,             \* Draw: "loop", "returned" or "panic"
    attempted,          \* the indices Draw has passed to Place, in order
    Count,              \* sortedWordList.Count
    opts,               \* FontMinSize, FontMaxSize, SizeFunction
    sizeIdx, m,         \* NewWordcloud's sizing loop: index, previous count
    sizepc,             \* NewWordcloud: "loop", "done" or "panic"
    fonts,              \* w.fonts: the rounded sizes cached
    hook,               \* w.hook
    hookCalls,          \* the invocations of w.hook, in order
    randomPlacement,    \* w.randomPlacement
    tries,              \* nextRandom's attempt counter
    posted              \* how many results each radius had posted on aggCh

vars == << width, height, radii, grid, maskLen, Pos, Rect, FontSize, measures,
           mainpc, idx,
           wordW, wordH, stopSendingCh, aggCh, workCh, workClosed,
           closeCount, results, done, stopChannels, stopIdx, wpc, wdata,
           wg, dpc, dnext, ppc, ret, placed, lastGrid, lastWords, ink,
           i, consecutiveMisses, drawpc, attempted, Count, opts, sizeIdx, m,
           sizepc, fonts, hook, hookCalls, randomPlacement, tries, posted >>

searchVars == << stopSendingCh, aggCh, workCh, workClosed, closeCount, results,
                 done, stopChannels, stopIdx, wpc, wdata, wg, dpc, dnext,
                 ppc >>
wordVars == << Pos, Rect, FontSize >>
drawVars == << i, consecutiveMisses, drawpc, attempted >>
canvasVars == << width, height, radii, maskLen, measures >>
sizingVars == << Count, opts, sizeIdx, m, sizepc >>
callerVars == << hook, hookCalls, randomPlacement >>

Workers == 1 .. NumCPU

\* ------------------------------------------------------------- geometry
Box(top, left, right, bottom) ==
    [Top |-> top, Left |-> left, Right |-> right, Bottom |-> bottom]

\* Box.fits: the rectangle lies within [0, w] x [0, h].
fits(b, w, h) ==
    b.Left >= 0 /\ b.Right <= w /\ b.Bottom >= 0 /\ b.Top <= h

\* Box.overlaps: the projections intersect on both axes; touching edges do not.
overlaps(a, b) ==
    /\ a.Left < b.Right /\ a.Right > b.Left
    /\ a.Bottom < b.Top /\ a.Top > b.Bottom

\* spatialHashMap.TestCollision with the predicate a.overlaps(b).
TestCollision(g, b) == \E k \in 1 .. Len(g) : overlaps(b, g[k])

\* spatialHashMap.Add.
Add(g, b) == Append(g, b)

\* grid.Add for each rectangle of a list, in order.
RECURSIVE AddAll(_, _)
AddAll(g, boxes) ==
    IF boxes = << >> THEN g ELSE AddAll(Add(g, Head(boxes)), Tail(boxes))

\* circle.positions for the circle of radius r around (cx, cy): points evenly
\* spaced by angle, starting at angle 0 (4 of them here, 512 in the source).
positions(cx, cy, r) ==
    << [x |-> cx + r, y |-> cy], [x |-> cx, y |-> cy + r],
       [x |-> cx - r, y |-> cy], [x |-> cx, y |-> cy - r] >>

\* w.radii: 1, 6, 11, ... while radius < sqrt(Width^2 + Height^2).
RECURSIVE radiiFrom(_, _, _)
radiiFrom(radius, w, h) ==
    IF radius * radius < w * w + h * h
    THEN <<radius>> \o radiiFrom(radius + RadiusStep, w, h)
    ELSE << >>

newRadii(w, h) == radiiFrom(FirstRadius, w, h)

Radii == {radii[k] : k \in 1 .. Len(radii)}

\* w.circles[r].positions(): centre (Width/2, Height/2), integer division.
circlePositions(r) == positions(width \div 2, height \div 2, r)

\* The rectangle testRadius (and nextRandom) tests at a point.
candidateBox(x, y, w, h) ==
    Box(y + h \div 2, x - w \div 2, x + w \div 2, y - h \div 2)

\* A result record of type res.
Res(radius, x, y, failed) ==
    [radius |-> radius, x |-> x, y |-> y, failed |-> failed]

\* testRadius: the loop over the points from index k on; x and y are the
\* coordinates of the point tested last.
RECURSIVE testRadiusFrom(_, _, _, _, _, _, _)
testRadiusFrom(radius, points, k, w, h, x, y) ==
    IF k > Len(points)
    THEN Res(radius, x, y, TRUE)
    ELSE LET p == points[k]
             box == candidateBox(p.x, p.y, w, h)
         IN  IF ~fits(box, width, height)
             THEN testRadiusFrom(radius, points, k + 1, w, h, p.x, p.y)
             ELSE IF ~TestCollision(grid, box)
                  THEN Res(radius, p.x, p.y, FALSE)
                  ELSE testRadiusFrom(radius, points, k + 1, w, h, p.x, p.y)

\* Mutant of testRadius: the test that the rectangle fits the canvas is missing.
RECURSIVE testRadiusNoFits(_, _, _, _)
testRadiusNoFits(radius, points, w, h) ==
    IF points = << >>
    THEN Res(radius, 0, 0, TRUE)
    ELSE LET p == Head(points)
             rest == testRadiusNoFits(radius, Tail(points), w, h)
         IN  IF ~TestCollision(grid, candidateBox(p.x, p.y, w, h))
             THEN Res(radius, p.x, p.y, FALSE)
             ELSE IF Tail(points) = << >>
                  THEN Res(radius, p.x, p.y, TRUE)
                  ELSE rest

testRadius(radius, points, w, h) == testRadiusFrom(radius, points, 1, w, h, 0, 0)

\* ------------------------------------------------------------- word store
\* math32.Inf(-1): a value below every coordinate.
NegInf == -1000000

\* notPlacedPos, complex(-Inf, 0).
notPlacedPos == << NegInf, 0 >>

\* Mutant of PreparedPos: the loop that writes the sentinel is missing.
PreparedPosZero(n) == [k \in 1 .. n |-> << 0, 0 >>]

\* WordDataCoArrays.Prepare for n words: every Pos is the sentinel.
PreparedPos(n) == [k \in 1 .. n |-> notPlacedPos]
PreparedRect(n) == [k \in 1 .. n |-> << 0, 0 >>]

\* WordDataCoArrays.PlacedCount.
PlacedCount == Cardinality({k \in 1 .. Len(Pos) : Pos[k] # notPlacedPos})

\* ------------------------------------------------------------ NewWordcloud
\* Font sizes are kept in hundredths of a point, rounded down.
\* The sizing functions opts.SizeFunction offers, both strictly increasing on
\* the ratios count/max > 0: t and t * t.
SizeFunctions == { "linear", "square" }

\* opts.SizeFunction(count / wordCountMax) * opts.FontMaxSize.
scaled(o, count, max) ==
    IF o.SizeFunction = "linear"
    THEN (count * o.FontMaxSize * 100) \div max
    ELSE (count * count * o.FontMaxSize * 100) \div (max * max)

\* Mutant of sizeOf: the clamp to FontMinSize is missing.
sizeOfUnclamped(o, count, max) == scaled(o, count, max)

\* The size NewWordcloud assigns to a word of the given count.
sizeOf(o, count, max) ==
    IF scaled(o, count, max) < o.FontMinSize * 100
    THEN o.FontMinSize * 100
    ELSE scaled(o, count, max)

\* The sizing loop's check of the running previous count.
notSorted(count, prev) == count > prev

\* sortedWordList.FontSize after the sizing pass over a sorted list.
assignSizes(counts, o) ==
    [k \in 1 .. Len(counts) |-> sizeOf(o, counts[k], counts[1])]

\* ---------------------------------------------------------------- setFont
\* math.Round of a size in hundredths: halves round away from zero.
Round(size) == (size + 50) \div 100

\* setFont panics: the size is not cached and the cache holds more than
\* FontCap entries.
setFontPanics(f, size) == Round(size) \notin f /\ Cardinality(f) > FontCap

\* w.fonts after setFont(size) returned.
setFont(f, size) == f \cup { Round(size) }

\* ------------------------------------------------------------------ Place
\* What the pixel scan may find in the image: no ink, ink at every scanned
\* pixel, or ink in the first scanned column only.
InkPatterns == { "none", "all", "column" }

hasInk(pattern, b, px, py) ==
    CASE pattern = "none" -> FALSE
      [] pattern = "all" -> TRUE
      [] OTHER -> px = b.Left

\* getPreciseBoundingBoxes: the inner loop over j for one column px.
RECURSIVE preciseColumn(_, _, _, _)
preciseColumn(pattern, b, px, py) ==
    IF py < b.Top
    THEN (IF hasInk(pattern, b, px, py)
          THEN << Box(py + ScanStep + 5, px - 5, px + ScanStep + 5, py - 5) >>
          ELSE << >>)
         \o preciseColumn(pattern, b, px, py + ScanStep)
    ELSE << >>

\* getPreciseBoundingBoxes: the outer loop over i.
RECURSIVE preciseFrom(_, _, _)
preciseFrom(pattern, b, px) ==
    IF px < b.Right
    THEN preciseColumn(pattern, b, px, b.Bottom)
         \o preciseFrom(pattern, b, px + ScanStep)
    ELSE << >>

getPreciseBoundingBoxes(pattern, b) == preciseFrom(pattern, b, b.Left)

Max(a, b) == IF a >= b THEN a ELSE b

\* The box Place builds around the position found.
placeBox(x, y, w, h) ==
    Box(y + h \div 2 + (3 * h) \div 10, x - w \div 2, x + w \div 2,
        Max(y - h \div 2, 0))

\* The rectangles Place passes to grid.Add, in order.
placeBoxes(pattern, x, y, w, h) ==
    IF h > PreciseHeight
    THEN getPreciseBoundingBoxes(pattern, placeBox(x, y, w, h))
    ELSE << placeBox(x, y, w, h) >>

\* data.Pos[idx] on success: x - 0.5*(width-5), y - 0.5*(height-5), kept
\* doubled so that the halves stay whole numbers.
placePos(x, y, w, h) ==
    << 2 * x - (w - WordPadding), 2 * y - (h - WordPadding) >>

placeRect(w, h) == << w - WordPadding, h - WordPadding >>

\* The pixel scans Place can meet: it scans only a placed word taller than
\* the threshold ("none" stands for no scan as well).
Scans(r, h) == IF r.space /\ h > PreciseHeight THEN InkPatterns ELSE { "none" }

\* Mutant of PlaceAfterSearch: the result's space flag is not checked.
PlaceAfterSearchUnchecked(k, w, h, pattern, r) ==
    /\ Pos' = [Pos EXCEPT ![k] = placePos(r.x, r.y, w, h)]
    /\ Rect' = [Rect EXCEPT ![k] = placeRect(w, h)]
    /\ grid' = AddAll(grid, placeBoxes(pattern, r.x, r.y, w, h))
    /\ placed' = r.space

\* The part of Place(k) after nextPos(w, h) has returned r.
PlaceAfterSearch(k, w, h, pattern, r) ==
    IF ~r.space
    THEN /\ Pos' = [Pos EXCEPT ![k] = notPlacedPos]
         /\ Rect' = [Rect EXCEPT ![k] = << 0, 0 >>]
         /\ grid' = grid
         /\ placed' = FALSE
    ELSE /\ Pos' = [Pos EXCEPT ![k] = placePos(r.x, r.y, w, h)]
         /\ Rect' = [Rect EXCEPT ![k] = placeRect(w, h)]
         /\ grid' = AddAll(grid, placeBoxes(pattern, r.x, r.y, w, h))
         /\ placed' = TRUE

\* ---------------------------------------------------------------- nextPos
\* The masks opts.Mask offers under Spec: none, a strip over the centre, or
\* the whole canvas.
SearchMasks(w, h) ==
    { << >>,
      << Box(h, w \div 2 - 3, w \div 2 + 3, 0) >>,
      << Box(h, 0, w, 0) >> }

\* The masks opts.Mask offers under SpecDraw: those, and the upper half.
Masks(w, h) == SearchMasks(w, h) \cup { << Box(h, 0, w, h \div 2) >> }

NoRes == Res(0, 0, 0, TRUE)

\* nextPos up to the aggregation loop: the named results, the channels, the
\* workers and the dispatcher.
StartSearch ==
    /\ ret' = [x |-> width, y |-> height, space |-> FALSE, radius |-> 0]
    /\ stopSendingCh' = 0
    /\ aggCh' = << >>
    /\ workCh' = << >>
    /\ workClosed' = FALSE
    /\ closeCount' = 0
    /\ results' = << >>
    /\ done' = {}
    /\ stopChannels' = [w \in Workers |-> 0]
    /\ stopIdx' = 1
    /\ wpc' = [w \in Workers |-> "select"]
    /\ wdata' = [w \in Workers |-> 0]
    /\ wg' = NumCPU
    /\ dpc' = "loop"
    /\ dnext' = 1
    /\ ppc' = "none"
    /\ posted' = [r \in Radii |-> 0]

\* nextRandom up to its loop: the named results are zero.
StartRandom ==
    /\ ret' = [x |-> 0, y |-> 0, space |-> FALSE, radius |-> 0]
    /\ tries' = 0

\* Mutant of EnterNextPos: the goroutines are started before randomPlacement
\* is looked at.
EnterNextPosEager ==
    IF randomPlacement
    THEN /\ mainpc' = "random"
         /\ tries' = 0
         /\ StartSearch
    ELSE /\ mainpc' = "agg"
         /\ StartSearch
         /\ UNCHANGED tries

\* nextPos up to its aggregation loop, or up to nextRandom's loop when
\* randomPlacement is set.
EnterNextPos ==
    IF randomPlacement
    THEN /\ mainpc' = "random"
         /\ StartRandom
         /\ UNCHANGED << searchVars, posted >>
    ELSE /\ mainpc' = "agg"
         /\ StartSearch
         /\ UNCHANGED tries

\* Place up to the call of nextPos (setFont, MeasureString), and nextPos up to
\* its loop.  A panic of setFont ends the run.
PlaceCall ==
    /\ mainpc = "idle"
    /\ drawpc = "loop"
    /\ i <= Len(Pos)
    /\ idx' = i
    /\ attempted' = Append(attempted, i)
    /\ lastGrid' = grid
    /\ lastWords' = << Pos, Rect, FontSize >>
    /\ IF setFontPanics(fonts, FontSize[i])
       THEN /\ mainpc' = "panic"
            /\ drawpc' = "panic"
            /\ UNCHANGED << fonts, wordW, wordH, ret, tries, searchVars,
                            posted >>
       ELSE /\ fonts' = setFont(fonts, FontSize[i])
            /\ wordW' = measures[i][1] + WordPadding
            /\ wordH' = measures[i][2] + WordPadding
            /\ EnterNextPos
            /\ UNCHANGED drawpc
    /\ UNCHANGED << canvasVars, sizingVars, callerVars, grid, wordVars,
                    placed, ink, i, consecutiveMisses >>

\* The rectangle nextRandom tests at (x, y) is free: it fits the canvas and
\* collides with nothing in the index.
randomFree(x, y, w, h) ==
    /\ fits(candidateBox(x, y, w, h), width, height)
    /\ ~TestCollision(grid, candidateBox(x, y, w, h))

\* One iteration of nextRandom's loop: a point drawn by rand.Intn.
RandomTry ==
    /\ mainpc = "random"
    /\ tries < MaxTries
    /\ tries' = tries + 1
    /\ \E x \in 0 .. width - 1 : \E y \in 0 .. height - 1 :
          IF randomFree(x, y, wordW, wordH)
          THEN /\ ret' = [x |-> x, y |-> y, space |-> TRUE, radius |-> 0]
               /\ mainpc' = "returned"
          ELSE /\ ret' = [x |-> x, y |-> y, space |-> FALSE, radius |-> 0]
               /\ mainpc' = "random"
    /\ UNCHANGED << canvasVars, sizingVars, callerVars, fonts, posted, grid,
                    wordVars, idx, wordW, wordH, searchVars, placed,
                    lastGrid, lastWords, ink, drawVars >>

\* nextRandom's loop ends with the budget spent: return x, y, false.
RandomExhausted ==
    /\ mainpc = "random"
    /\ ~(tries < MaxTries)
    /\ mainpc' = "returned"
    /\ UNCHANGED << canvasVars, sizingVars, callerVars, fonts, tries, posted,
                    grid, wordVars, idx, wordW, wordH, searchVars, ret,
                    placed, lastGrid, lastWords, ink, drawVars >>

\* SetHook(hook).
HookFuncs == { "nil", "observer" }

SetHook ==
    /\ mainpc = "idle"
    /\ drawpc = "loop"
    /\ \E h \in HookFuncs : h # hook /\ hook' = h
    /\ UNCHANGED << canvasVars, sizingVars, hookCalls, randomPlacement,
                    fonts, tries, posted, grid, wordVars, mainpc, idx,
                    wordW, wordH, searchVars, ret, placed, lastGrid,
                    lastWords, ink, drawVars >>

\* A worker's select takes a ring from workCh.
WorkerReceive(w) ==
    /\ wpc[w] = "select"
    /\ workCh # << >>
    /\ wdata' = [wdata EXCEPT ![w] = Head(workCh)]
    /\ workCh' = Tail(workCh)
    /\ wpc' = [wpc EXCEPT ![w] = "test"]
    /\ UNCHANGED << canvasVars, sizingVars, callerVars, fonts, tries, posted, grid, wordVars, mainpc, idx, wordW, wordH, stopSendingCh, aggCh, workClosed, closeCount,
                    results, done, stopChannels, stopIdx, wg, dpc, dnext,
                    ppc, ret, placed, lastGrid, lastWords, ink, drawVars >>

\* A worker's select finds workCh closed and drained: return.
WorkerClosed(w) ==
    /\ wpc[w] = "select"
    /\ workCh = << >>
    /\ workClosed
    /\ wpc' = [wpc EXCEPT ![w] = "exited"]
    /\ wg' = wg - 1
    /\ UNCHANGED << canvasVars, sizingVars, callerVars, fonts, tries, posted, grid, wordVars, mainpc, idx, wordW, wordH, stopSendingCh, aggCh, workCh, workClosed,
                    closeCount, results, done, stopChannels, stopIdx, wdata, dpc, dnext, ppc, ret, placed, lastGrid, lastWords,
                    ink, drawVars >>

\* A worker's select takes the stop signal: return.
WorkerStop(w) ==
    /\ wpc[w] = "select"
    /\ stopChannels[w] > 0
    /\ stopChannels' = [stopChannels EXCEPT ![w] = @ - 1]
    /\ wpc' = [wpc EXCEPT ![w] = "exited"]
    /\ wg' = wg - 1
    /\ UNCHANGED << canvasVars, sizingVars, callerVars, fonts, tries, posted, grid, wordVars, mainpc, idx, wordW, wordH, stopSendingCh, aggCh, workCh, workClosed,
                    closeCount, results, done, stopIdx, wdata, dpc,
                    dnext, ppc, ret, placed, lastGrid, lastWords, ink,
                    drawVars >>

\* A worker runs testRadius on the ring it received (it reads w.grid) and
\* posts the result on aggCh; the send blocks while aggCh is full.
WorkerSend(w) ==
    /\ wpc[w] = "test"
    /\ Len(aggCh) < AggCap
    /\ aggCh' = Append(aggCh,
                   testRadius(wdata[w], circlePositions(wdata[w]), wordW, wordH))
    /\ posted' = [posted EXCEPT ![wdata[w]] = @ + 1]
    /\ wpc' = [wpc EXCEPT ![w] = "select"]
    /\ UNCHANGED << canvasVars, sizingVars, callerVars, fonts, tries, grid,
                    wordVars, mainpc, idx, wordW, wordH,
                    stopSendingCh, workCh, workClosed, closeCount,
                    results, done, stopChannels, stopIdx, wdata, wg, dpc,
                    dnext, ppc, ret, placed, lastGrid, lastWords, ink,
                    drawVars >>

Worker(w) ==
    \/ WorkerReceive(w)
    \/ WorkerClosed(w)
    \/ WorkerStop(w)
    \/ WorkerSend(w)

\* Mutant of CloseWorkCh: the return after close(workCh) is missing.
CloseWorkChNoReturn ==
    /\ workClosed' = TRUE
    /\ closeCount' = closeCount + 1
    /\ dpc' = dpc

\* close(workCh), and the dispatcher returns.
CloseWorkCh ==
    /\ workClosed' = TRUE
    /\ closeCount' = closeCount + 1
    /\ dpc' = "exited"

\* The dispatcher's select sends the next ring on workCh.
DispatchSend ==
    /\ dpc = "loop"
    /\ dnext <= Len(radii)
    /\ Len(workCh) < NumCPU
    /\ workCh' = Append(workCh, radii[dnext])
    /\ dnext' = dnext + 1
    /\ UNCHANGED << canvasVars, sizingVars, callerVars, fonts, tries, posted, grid, wordVars, mainpc, idx, wordW, wordH, stopSendingCh, aggCh, workClosed, closeCount,
                    results, done, stopChannels, stopIdx, wpc, wdata, wg,
                    dpc, ppc, ret, placed, lastGrid, lastWords, ink,
                    drawVars >>

\* The dispatcher's select takes the stop token: close(workCh) and return.
DispatchStop ==
    /\ dpc = "loop"
    /\ dnext <= Len(radii)
    /\ stopSendingCh > 0
    /\ stopSendingCh' = stopSendingCh - 1
    /\ CloseWorkCh
    /\ UNCHANGED << canvasVars, sizingVars, callerVars, fonts, tries, posted, grid, wordVars, mainpc, idx, wordW, wordH, aggCh, workCh, results, done, stopChannels, stopIdx,
                    wpc, wdata, wg, dnext, ppc, ret, placed, lastGrid,
                    lastWords, ink, drawVars >>

\* All rings were sent: close(workCh) and return.
DispatchClose ==
    /\ dpc = "loop"
    /\ dnext > Len(radii)
    /\ CloseWorkCh
    /\ UNCHANGED << canvasVars, sizingVars, callerVars, fonts, tries, posted, grid, wordVars, mainpc, idx, wordW, wordH, stopSendingCh, aggCh, workCh, results, done,
                    stopChannels, stopIdx, wpc, wdata, wg, dnext, ppc,
                    ret, placed, lastGrid, lastWords, ink, drawVars >>

Dispatcher == DispatchSend \/ DispatchStop \/ DispatchClose

\* The aggregator's scan of w.radii, in order, after a result arrived:
\* "wait" at the first radius not done, "found" at the first success,
\* "failed" when every radius is done and failed.
RECURSIVE aggScan(_, _, _)
aggScan(k, res, dn) ==
    IF k > Len(radii)
    THEN [kind |-> "failed", radius |-> 0]
    ELSE IF radii[k] \notin dn
         THEN [kind |-> "wait", radius |-> 0]
         ELSE IF ~res[radii[k]].failed
              THEN [kind |-> "found", radius |-> radii[k]]
              ELSE aggScan(k + 1, res, dn)

\* Mutant of aggregate: takes the first success among the radii already done,
\* without waiting for the smaller radii that are still pending.
RECURSIVE aggScanNoWait(_, _, _, _)
aggScanNoWait(k, res, dn, pending) ==
    IF k > Len(radii)
    THEN [kind |-> IF pending THEN "wait" ELSE "failed", radius |-> 0]
    ELSE IF radii[k] \notin dn
         THEN aggScanNoWait(k + 1, res, dn, TRUE)
         ELSE IF ~res[radii[k]].failed
              THEN [kind |-> "found", radius |-> radii[k]]
              ELSE aggScanNoWait(k + 1, res, dn, pending)

aggregateNoWait(res, dn) == aggScanNoWait(1, res, dn, FALSE)

\* Mutant of aggregate: scans the radii from the largest down.
RECURSIVE aggScanDown(_, _, _)
aggScanDown(k, res, dn) ==
    IF k < 1
    THEN [kind |-> "failed", radius |-> 0]
    ELSE IF radii[k] \notin dn
         THEN [kind |-> "wait", radius |-> 0]
         ELSE IF ~res[radii[k]].failed
              THEN [kind |-> "found", radius |-> radii[k]]
              ELSE aggScanDown(k - 1, res, dn)

aggregateDown(res, dn) == aggScanDown(Len(radii), res, dn)

\* Mutant of aggregate: gives up at the first pending radius.
aggregateGiveUp(res, dn) ==
    LET v == aggScan(1, res, dn)
    IN  IF v.kind = "wait" /\ Cardinality(dn) > 1
        THEN [kind |-> "failed", radius |-> 0]
        ELSE v

aggregate(res, dn) == aggScan(1, res, dn)

\* One iteration of the aggregation loop: receive d from aggCh, record it,
\* scan the radii, and return or keep waiting.
AggReceive ==
    /\ mainpc = "agg"
    /\ aggCh # << >>
    /\ LET d == Head(aggCh)
           res == (d.radius :> d) @@ results
           dn == done \cup {d.radius}
           verdict == aggregate(res, dn)
       IN  /\ aggCh' = Tail(aggCh)
           /\ results' = res
           /\ done' = dn
           /\ IF verdict.kind = "wait"
              THEN UNCHANGED << mainpc, ret >>
              ELSE /\ mainpc' = "stopSending"
                   /\ ret' = IF verdict.kind = "found"
                             THEN [x |-> res[verdict.radius].x,
                                   y |-> res[verdict.radius].y,
                                   space |-> TRUE,
                                   radius |-> verdict.radius]
                             ELSE ret
    /\ UNCHANGED << canvasVars, sizingVars, callerVars, fonts, tries, posted, grid, wordVars, idx, wordW, wordH,
                    stopSendingCh, workCh, workClosed, closeCount,
                    stopChannels, stopIdx, wpc, wdata, wg, dpc, dnext,
                    ppc, placed, lastGrid, lastWords, ink, drawVars >>

\* Deferred: stopSendingCh <- struct{}{}.
DeferStopSending ==
    /\ mainpc = "stopSending"
    /\ stopSendingCh < 1
    /\ stopSendingCh' = stopSendingCh + 1
    /\ stopIdx' = 1
    /\ mainpc' = "stopWorkers"
    /\ UNCHANGED << canvasVars, sizingVars, callerVars, fonts, tries, posted, grid, wordVars, idx, wordW, wordH,
                    aggCh, workCh, workClosed, closeCount, results, done,
                    stopChannels, wpc, wdata, wg, dpc, dnext, ppc, ret,
                    placed, lastGrid, lastWords, ink, drawVars >>

\* Deferred: c <- struct{}{} for the next stop channel.
DeferStopWorker ==
    /\ mainpc = "stopWorkers"
    /\ stopChannels[stopIdx] < 1
    /\ stopChannels' = [stopChannels EXCEPT ![stopIdx] = @ + 1]
    /\ stopIdx' = stopIdx + 1
    /\ mainpc' = IF stopIdx = NumCPU THEN "purge" ELSE "stopWorkers"
    /\ UNCHANGED << canvasVars, sizingVars, callerVars, fonts, tries, posted, grid, wordVars, idx, wordW, wordH,
                    stopSendingCh, aggCh, workCh, workClosed, closeCount,
                    results, done, wpc, wdata, wg, dpc, dnext, ppc, ret,
                    placed, lastGrid, lastWords, ink, drawVars >>

\* Deferred: start the goroutine that purges aggCh.
DeferPurge ==
    /\ mainpc = "purge"
    /\ ppc' = "run"
    /\ mainpc' = "wait"
    /\ UNCHANGED << canvasVars, sizingVars, callerVars, fonts, tries, posted, grid, wordVars, idx, wordW, wordH,
                    stopSendingCh, aggCh, workCh, workClosed, closeCount,
                    results, done, stopChannels, stopIdx, wpc, wdata, wg,
                    dpc, dnext, ret, placed, lastGrid, lastWords, ink,
                    drawVars >>

\* Mutant of WaitReturns: the join is skipped.
WaitSkipped(counter) == counter >= 0

\* wg.Wait() returns when the counter is zero.
WaitReturns(counter) == counter = 0

\* Deferred: wg.Wait(); then nextPos returns.
DeferWait ==
    /\ mainpc = "wait"
    /\ WaitReturns(wg)
    /\ mainpc' = "returned"
    /\ UNCHANGED << canvasVars, sizingVars, callerVars, fonts, tries, posted, grid, wordVars, idx, wordW, wordH,
                    searchVars, ret, placed, lastGrid, lastWords, ink,
                    drawVars >>

\* The purger's select receives (and drops) a result.
PurgeReceive ==
    /\ ppc = "run"
    /\ aggCh # << >>
    /\ aggCh' = Tail(aggCh)
    /\ UNCHANGED << canvasVars, sizingVars, callerVars, fonts, tries, posted, grid, wordVars, mainpc, idx, wordW, wordH, stopSendingCh, workCh, workClosed, closeCount,
                    results, done, stopChannels, stopIdx, wpc, wdata, wg,
                    dpc, dnext, ppc, ret, placed, lastGrid, lastWords, ink,
                    drawVars >>

\* The purger's select finds aggCh empty: default, return.
PurgeReturn ==
    /\ ppc = "run"
    /\ aggCh = << >>
    /\ ppc' = "exited"
    /\ UNCHANGED << canvasVars, sizingVars, callerVars, fonts, tries, posted, grid, wordVars, mainpc, idx, wordW, wordH, stopSendingCh, aggCh, workCh, workClosed,
                    closeCount, results, done, stopChannels, stopIdx, wpc,
                    wdata, wg, dpc, dnext, ret, placed, lastGrid,
                    lastWords, ink, drawVars >>

Purger == PurgeReceive \/ PurgeReturn

\* Mutant of DrawAfterPlace: the pass stops at the 10th consecutive miss.
DrawAfterPlaceEarly(success) ==
    IF ~success
    THEN /\ consecutiveMisses' = consecutiveMisses + 1
         /\ IF consecutiveMisses' >= MaxMisses
            THEN drawpc' = "returned" /\ i' = i
            ELSE drawpc' = "loop" /\ i' = i + 1
    ELSE /\ consecutiveMisses' = 0
         /\ drawpc' = "loop"
         /\ i' = i + 1

\* Draw's loop body after Place(i) returned success: the consecutive-miss rule.
DrawAfterPlace(success) ==
    IF ~success
    THEN /\ consecutiveMisses' = consecutiveMisses + 1
         /\ IF consecutiveMisses' > MaxMisses
            THEN drawpc' = "returned" /\ i' = i
            ELSE drawpc' = "loop" /\ i' = i + 1
    ELSE /\ consecutiveMisses' = 0
         /\ drawpc' = "loop"
         /\ i' = i + 1

\* Place from the return of nextPos to its own return, and Draw's loop body
\* after it.
PlaceReturn ==
    /\ mainpc = "returned"
    /\ \E pattern \in Scans(ret, wordH) :
          /\ ink' = pattern
          /\ PlaceAfterSearch(idx, wordW, wordH, pattern, ret)
    /\ DrawAfterPlace(placed')
    /\ mainpc' = "idle"
    /\ UNCHANGED << canvasVars, sizingVars, callerVars, fonts, tries, posted, FontSize, idx, wordW, wordH, searchVars,
                    ret, lastGrid, lastWords, attempted >>

\* The loop ran through the whole list: Draw returns.
DrawReturn ==
    /\ drawpc = "loop"
    /\ mainpc = "idle"
    /\ i > Len(Pos)
    /\ drawpc' = "returned"
    /\ UNCHANGED << canvasVars, sizingVars, callerVars, fonts, tries, posted, grid, wordVars, mainpc, idx, wordW, wordH, searchVars, ret, placed, lastGrid, lastWords, ink,
                    i, consecutiveMisses, attempted >>

Main ==
    \/ DrawReturn
    \/ PlaceCall
    \/ AggReceive
    \/ DeferStopSending
    \/ DeferStopWorker
    \/ DeferPurge
    \/ DeferWait
    \/ PlaceReturn

\* ------------------------------------------------------------------- Draw
\* nextPos(w, h) as the aggregator resolves it: the result of the first ring,
\* in the order of w.radii, whose test succeeds; (w.width, w.height, false)
\* when every ring fails.
RECURSIVE scanFrom(_, _, _)
scanFrom(k, w, h) ==
    IF k > Len(radii)
    THEN [x |-> width, y |-> height, space |-> FALSE, radius |-> 0]
    ELSE LET d == testRadius(radii[k], circlePositions(radii[k]), w, h)
         IN  IF ~d.failed
             THEN [x |-> d.x, y |-> d.y, space |-> TRUE, radius |-> radii[k]]
             ELSE scanFrom(k + 1, w, h)

scanNextPos(w, h) == scanFrom(1, w, h)

\* One iteration of Draw's loop: Place(i), then the consecutive-miss rule.
DrawPlace ==
    /\ drawpc = "loop"
    /\ i <= Len(Pos)
    /\ idx' = i
    /\ attempted' = Append(attempted, i)
    /\ lastGrid' = grid
    /\ lastWords' = << Pos, Rect, FontSize >>
    /\ IF setFontPanics(fonts, FontSize[i])
       THEN /\ drawpc' = "panic"
            /\ UNCHANGED << fonts, wordW, wordH, ink, ret, grid, Pos, Rect,
                            placed, i, consecutiveMisses >>
       ELSE /\ fonts' = setFont(fonts, FontSize[i])
            /\ LET w == measures[i][1] + WordPadding
                   h == measures[i][2] + WordPadding
                   r == scanNextPos(w, h)
               IN  \E pattern \in Scans(r, h) :
                      /\ wordW' = w
                      /\ wordH' = h
                      /\ ink' = pattern
                      /\ ret' = r
                      /\ PlaceAfterSearch(i, w, h, pattern, r)
            /\ DrawAfterPlace(placed')
    /\ UNCHANGED << canvasVars, sizingVars, callerVars, tries, posted,
                    FontSize, mainpc, searchVars >>

\* --------------------------------------------------------- specifications
\* The counts of the word lists of Spec and SpecDraw: the tall words come
\* first and have the larger count.
CountsOf(words) == [k \in 1 .. Len(words) |-> IF words[k] = Tall THEN 2 ELSE 1]

\* The sizing options of Spec and SpecDraw.
DefaultOpts == [FontMinSize |-> 10, FontMaxSize |-> 20, SizeFunction |-> "linear"]

\* The fields of the engine and of the word list other than the sizing pass's:
\* no Place call has begun, no goroutine runs.
Engine(canvas, mask, rings, words, pos, rect, sizes) ==
    /\ measures = words
    /\ width = canvas[1]
    /\ height = canvas[2]
    /\ radii = rings
    /\ grid = mask
    /\ maskLen = Len(mask)
    /\ Pos = pos
    /\ Rect = rect
    /\ FontSize = sizes
    /\ mainpc = "idle"
    /\ idx = 1
    /\ wordW = 0
    /\ wordH = 0
    /\ stopSendingCh = 0
    /\ aggCh = << >>
    /\ workCh = << >>
    /\ workClosed = FALSE
    /\ closeCount = 0
    /\ results = << >>
    /\ done = {}
    /\ stopChannels = [w \in Workers |-> 0]
    /\ stopIdx = 1
    /\ wpc = [w \in Workers |-> "exited"]
    /\ wdata = [w \in Workers |-> 0]
    /\ wg = 0
    /\ dpc = "exited"
    /\ dnext = 1
    /\ ppc = "none"
    /\ ret = [x |-> 0, y |-> 0, space |-> FALSE, radius |-> 0]
    /\ placed = FALSE
    /\ lastGrid = mask
    /\ lastWords = << pos, rect, sizes >>
    /\ ink = "none"
    /\ i = 1
    /\ consecutiveMisses = 0
    /\ drawpc = "loop"
    /\ attempted = << >>
    /\ fonts = {}
    /\ hook = "nil"
    /\ hookCalls = << >>
    /\ tries = 0
    /\ posted = [r \in {rings[k] : k \in 1 .. Len(rings)} |-> 0]

\* The state NewWordcloud leaves for a canvas, a mask, a list of words with
\* sorted counts, the sizing options and the placement mode.
ConstructedWith(canvas, mask, words, counts, o, random) ==
    /\ Engine(canvas, mask, newRadii(canvas[1], canvas[2]), words,
              PreparedPos(Len(words)), PreparedRect(Len(words)),
              assignSizes(counts, o))
    /\ Count = counts
    /\ opts = o
    /\ sizeIdx = Len(counts) + 1
    /\ m = counts[Len(counts)]
    /\ sizepc = "done"
    /\ randomPlacement = random

\* The state NewWordcloud leaves for a canvas, a mask and a list of words.
Constructed(canvas, mask, words) ==
    ConstructedWith(canvas, mask, words, CountsOf(words), DefaultOpts, FALSE)

Init ==
    \E canvas \in Canvases :
        \E mask \in SearchMasks(canvas[1], canvas[2]) :
            \E words \in WordLists(SearchWords) :
                Constructed(canvas, mask, words)

Next ==
    \/ Main
    \/ \E w \in Workers : Worker(w)
    \/ Dispatcher
    \/ Purger

Spec == Init /\ [][Next]_vars

\* Every goroutine that can take a step eventually takes one.
Fairness ==
    /\ WF_vars(Main)
    /\ \A w \in Workers : WF_vars(Worker(w))
    /\ WF_vars(Dispatcher)
    /\ WF_vars(Purger)

FairSpec == Spec /\ Fairness

InitDraw ==
    \E canvas \in DrawCanvases :
        \E mask \in Masks(canvas[1], canvas[2]) :
            \E words \in DrawWordLists(NumWords) :
                Constructed(canvas, mask, words)

NextDraw == DrawPlace \/ DrawReturn

SpecDraw == InitDraw /\ [][NextDraw]_vars

\* --------------------------------------------- NewWordcloud's sizing pass
\* The count lists offered to NewWordcloud: every list of at most SizingWords
\* counts in 1 .. MaxCount, sorted or not, the empty list included.
CountLists == UNION { [1 .. n -> 1 .. MaxCount] : n \in 0 .. SizingWords }

OptionSets ==
    { [FontMinSize |-> 10, FontMaxSize |-> mx, SizeFunction |-> f] :
        mx \in { 20, 40 }, f \in SizeFunctions }

\* NewWordcloud up to the sizing loop: Count[0] is read (a panic on an empty
\* list), then Prepare.
NewWordcloudEnter ==
    /\ sizepc = "start"
    /\ IF Count = << >>
       THEN /\ sizepc' = "panic"
            /\ UNCHANGED << m, sizeIdx, wordVars >>
       ELSE /\ m' = Count[1]
            /\ sizeIdx' = 1
            /\ Pos' = PreparedPos(Len(Count))
            /\ Rect' = PreparedRect(Len(Count))
            /\ FontSize' = [k \in 1 .. Len(Count) |-> 0]
            /\ sizepc' = "loop"
    /\ UNCHANGED << canvasVars, callerVars, Count, opts, fonts, tries, posted,
                    grid, mainpc, idx, wordW, wordH, searchVars, ret, placed,
                    lastGrid, lastWords, ink, drawVars >>

\* One iteration of the sizing loop.
NewWordcloudSize ==
    /\ sizepc = "loop"
    /\ sizeIdx <= Len(Count)
    /\ IF notSorted(Count[sizeIdx], m)
       THEN /\ sizepc' = "panic"
            /\ UNCHANGED << m, sizeIdx, FontSize >>
       ELSE /\ FontSize' = [FontSize EXCEPT
                               ![sizeIdx] = sizeOf(opts, Count[sizeIdx], Count[1])]
            /\ m' = Count[sizeIdx]
            /\ sizeIdx' = sizeIdx + 1
            /\ sizepc' = "loop"
    /\ UNCHANGED << canvasVars, callerVars, Count, opts, fonts, tries, posted,
                    grid, Pos, Rect, mainpc, idx, wordW, wordH, searchVars,
                    ret, placed, lastGrid, lastWords, ink, drawVars >>

\* NewWordcloud after the sizing loop: the index, the rings, the font cache.
NewWordcloudFinish ==
    /\ sizepc = "loop"
    /\ sizeIdx > Len(Count)
    /\ grid' = << >>
    /\ radii' = newRadii(width, height)
    /\ fonts' = {}
    /\ sizepc' = "done"
    /\ UNCHANGED << width, height, maskLen, measures, callerVars, Count, opts,
                    sizeIdx, m, tries, posted, wordVars, mainpc, idx, wordW,
                    wordH, searchVars, ret, placed, lastGrid, lastWords, ink,
                    drawVars >>

InitSizing ==
    \E counts \in CountLists : \E o \in OptionSets :
        /\ Engine(<< 18, 10 >>, << >>, << >>, [k \in 1 .. Len(counts) |-> Small],
                  << >>, << >>, << >>)
        /\ Count = counts
        /\ opts = o
        /\ sizeIdx = 1
        /\ m = 0
        /\ sizepc = "start"
        /\ randomPlacement = FALSE

NextSizing == NewWordcloudEnter \/ NewWordcloudSize \/ NewWordcloudFinish

SpecSizing == InitSizing /\ [][NextSizing]_vars

\* ------------------------------------------------------------ random mode
\* The canvas of the random mode: a small word fits at three points of it, a
\* wide word nowhere.
RandomCanvases == { << 8, 10 >> }

\* Its word lists: small words, after one wide word or none.
RandomWordLists(n) ==
    { [k \in 1 .. n |-> IF k <= b THEN Wide ELSE Small] : b \in 0 .. 1 }

\* Its count lists: all counts different, or all equal.
RandomCountLists(n) == { [k \in 1 .. n |-> n + 1 - k], [k \in 1 .. n |-> 1] }

RandomOpts == [FontMinSize |-> 10, FontMaxSize |-> 40, SizeFunction |-> "linear"]

InitRandom ==
    \E canvas \in RandomCanvases :
        \E words \in RandomWordLists(RandomWords) :
            \E counts \in RandomCountLists(RandomWords) :
                ConstructedWith(canvas, << >>, words, counts, RandomOpts, TRUE)

NextRandom ==
    \/ SetHook
    \/ PlaceCall
    \/ RandomTry
    \/ RandomExhausted
    \/ PlaceReturn
    \/ DrawReturn

SpecRandom == InitRandom /\ [][NextRandom]_vars

\* ----------------------------------------------------------------- claims
\* A candidate point is valid for a word of size w x h: its rectangle fits the
\* canvas and collides with nothing in the index.
Valid(p, w, h) ==
    /\ fits(candidateBox(p.x, p.y, w, h), width, height)
    /\ ~TestCollision(grid, candidateBox(p.x, p.y, w, h))

RingValid(r, w, h) ==
    \E k \in 1 .. Len(circlePositions(r)) : Valid(circlePositions(r)[k], w, h)

\* nextPos has determined its answer (the deferred shutdown runs, or is over).
Answered == mainpc \in {"stopSending", "stopWorkers", "purge", "wait", "returned"}

\* C1 Minimality: when nextPos has found a point on the ring of radius r, the
\* point is one of that ring, and every ring of smaller radius has reported,
\* has reported a failure, and holds no valid point.
C1_Minimality ==
    (Answered /\ ret.space) =>
        /\ \E k \in 1 .. Len(circlePositions(ret.radius)) :
              /\ circlePositions(ret.radius)[k].x = ret.x
              /\ circlePositions(ret.radius)[k].y = ret.y
        /\ \A r \in Radii :
              r < ret.radius =>
                  /\ r \in done
                  /\ results[r].failed
                  /\ ~RingValid(r, wordW, wordH)

\* C1 witness: a success beyond the first ring, decided after a larger ring
\* had already reported.
C1_Witness ==
    /\ mainpc = "returned"
    /\ ret.space
    /\ ret.radius > FirstRadius
    /\ \E r \in done : r > ret.radius

\* C2 Read/write isolation: when nextPos has returned (Place is about to write
\* the index), every worker the call started has exited; none is in testRadius.
C2_Isolation ==
    mainpc = "returned" => \A w \in Workers : wpc[w] = "exited"

\* C2 witness: nextPos returned while rings were still undispatched, after its
\* workers had been told to stop.
C2_Witness ==
    /\ mainpc = "returned"
    /\ dnext <= Len(radii)
    /\ \A w \in Workers : wpc[w] = "exited"

\* C4 Determinism: whatever the interleaving, nextPos returns the result of
\* scanning the rings in order of radius: the first valid point of the
\* smallest ring that has one, or (w.width, w.height, false).
C4_Determinism ==
    mainpc = "returned" => ret = scanNextPos(wordW, wordH)

\* C4 witness: results arrived out of order: a larger ring's success was
\* recorded before the first ring's, and the first ring's point was returned.
C4_Witness ==
    /\ mainpc = "returned"
    /\ ret.space
    /\ ret.radius = FirstRadius
    /\ \E r \in done : r > ret.radius /\ ~results[r].failed

\* C7 Failure means exhaustion: nextPos returns space = false only when every
\* ring has reported a failure, and returns space = true whenever some ring
\* holds a valid point.
C7_FailsWhenExhausted ==
    mainpc = "returned" =>
        /\ ~ret.space => (done = Radii /\ \A r \in Radii : results[r].failed)
        /\ (\E r \in Radii : RingValid(r, wordW, wordH)) => ret.space

\* C7 witness: a search that failed on a canvas where an earlier word was placed.
C7_Witness ==
    /\ mainpc = "returned"
    /\ ~ret.space
    /\ Len(grid) > maskLen

\* C3 Termination: under fair scheduling every call of nextPos returns.
C3_Termination == (mainpc = "agg") ~> (mainpc = "returned")

\* C10 Dispatch stops on cancellation: while the stop token sits in
\* stopSendingCh the dispatcher sends no further ring on workCh.
C10_NoDispatchAfterStop == [][stopSendingCh > 0 => dnext' <= dnext]_vars

\* The rectangles Place has added to the index (those after the mask's).
Inserted == (maskLen + 1) .. Len(grid)

\* C5 No overlap: no two rectangles Place has passed to grid.Add overlap.
C5_NoOverlap ==
    \A a \in Inserted : \A b \in Inserted :
        a < b => ~overlaps(grid[a], grid[b])

\* C6 Within canvas: every rectangle Place has passed to grid.Add fits the
\* canvas.
C6_WithinCanvas == \A k \in Inserted : fits(grid[k], width, height)

\* Place(idx) has returned, and the caller has not called Place again.
PlaceReturned == mainpc = "idle" /\ attempted # << >>

\* C8 Failed placement: when Place(idx) returns false the index is what it was
\* before the call, the word's Pos is the sentinel and its Rect is 0, and no
\* other word's Pos, Rect or FontSize has changed.
C8_FailedPlaceFrame ==
    (PlaceReturned /\ ~placed) =>
        /\ grid = lastGrid
        /\ Pos[idx] = notPlacedPos
        /\ Rect[idx] = << 0, 0 >>
        /\ \A k \in 1 .. Len(Pos) :
              k # idx => Pos[k] = lastWords[1][k] /\ Rect[k] = lastWords[2][k]
        /\ FontSize = lastWords[3]

\* C8 witness: a placement failed after another word had been placed.
C8_Witness ==
    /\ PlaceReturned
    /\ ~placed
    /\ Len(grid) > maskLen
    /\ \E k \in 1 .. Len(Pos) : Pos[k] # notPlacedPos

\* Under Draw every word is passed to Place at most once, so a word attempted
\* is unplaced exactly when its Place call failed.
Missed(k) == Pos[k] = notPlacedPos

\* The number of failed Place calls since the last success.
TrailingMisses ==
    LET n == Len(attempted)
        hits == {k \in 1 .. n : ~Missed(k)}
    IN  n - (IF hits = {} THEN 0 ELSE CHOOSE k \in hits : \A j \in hits : j <= k)

\* C9 Consecutive-miss stopping rule: Draw passes the words to Place in
\* increasing index order, each once; a success resets the miss counter; the
\* counter is the number of failures since the last success and never exceeds
\* 11; at 11 Draw has returned; Draw returns only at 11 or at the end of the
\* list; and when words 1..5 are placed and every later word fails, exactly
\* words 1..16 were attempted and 5 words are placed.
C9_StoppingRule ==
    /\ \A k \in 1 .. Len(attempted) : attempted[k] = k
    /\ (attempted # << >> /\ placed) => consecutiveMisses = 0
    /\ consecutiveMisses = TrailingMisses
    /\ consecutiveMisses <= MaxMisses + 1
    /\ consecutiveMisses > MaxMisses => drawpc = "returned"
    /\ drawpc = "returned" =>
          \/ consecutiveMisses = MaxMisses + 1
          \/ Len(attempted) = Len(Pos)
    /\ ( /\ drawpc = "returned"
         /\ Len(Pos) >= 16
         /\ \A k \in 1 .. 5 : ~Missed(k)
         /\ \A k \in 6 .. Len(attempted) : Missed(k) )
       => (Len(attempted) = 16 /\ PlacedCount = 5)

\* C9 witness: words 1..5 placed, words 6..16 failed, Draw returned with a
\* later word never attempted.
C9_Witness ==
    /\ drawpc = "returned"
    /\ \A k \in 1 .. 5 : ~Missed(k)
    /\ Len(attempted) = 16
    /\ Len(Pos) > 16
    /\ PlacedCount = 5

\* C11 Workers stop pulling work on cancellation: a worker whose stop channel
\* holds the stop token receives no further ring from workCh.
C11_NoReceiveAfterStop ==
    [][\A w \in Workers :
          (stopChannels[w] > 0 /\ wpc[w] = "select") => wpc'[w] # "test"]_vars

\* C12 Observer notification: a Place call that returns true while a hook is
\* registered invokes the hook exactly once, with that word's index, position,
\* rectangle and font size; a Place call that returns false, or one made with
\* no hook registered, invokes no hook.
C12_HookNotified ==
    [][(mainpc = "returned" /\ mainpc' = "idle") =>
          IF placed' /\ hook # "nil"
          THEN hookCalls' = Append(hookCalls,
                                [word |-> idx, pos |-> Pos'[idx],
                                 rect |-> Rect'[idx], size |-> FontSize[idx]])
          ELSE hookCalls' = hookCalls]_vars

\* The list holds an index whose count exceeds the count before it.
Ascending(counts) == \E k \in 2 .. Len(counts) : counts[k] > counts[k - 1]

\* C13 Sort precondition enforcement: NewWordcloud aborts only on a list that
\* holds a count larger than the count before it, and completes the sizing
\* pass only on a list that holds none, with a size assigned to every word.
C13_SortEnforced ==
    /\ sizepc = "panic" => Ascending(Count)
    /\ sizepc = "done" =>
          /\ ~Ascending(Count)
          /\ Len(FontSize) = Len(Count)
          /\ \A k \in 1 .. Len(Count) : FontSize[k] > 0

C15_RandomFallback ==
    randomPlacement =>
        /\ wg = 0
        /\ \A w \in Workers : wpc[w] = "exited"
        /\ dpc = "exited"
        /\ workCh = << >> /\ aggCh = << >>
        /\ tries <= MaxTries
        /\ mainpc = "returned" =>
              /\ ret.space => Valid(ret, wordW, wordH)
              /\ ~ret.space => (tries = MaxTries /\ ~Valid(ret, wordW, wordH))
        /\ mainpc \in {"random", "returned"} => grid = lastGrid

\* C15 witness: nextRandom spent its whole budget and returned space = false
\* on a canvas where an earlier word had been placed.
C15_Witness ==
    /\ randomPlacement
    /\ mainpc = "returned"
    /\ ~ret.space
    /\ tries = MaxTries
    /\ Len(grid) > maskLen

\* The distinct rounded sizes requested through setFont so far.
Requested == { Round(FontSize[attempted[k]]) : k \in 1 .. Len(attempted) }

\* C16 Font-size cap: the font cache never holds more than FontCap entries,
\* and the run has aborted exactly when more than FontCap distinct rounded
\* sizes have been requested (so a request for a cached size never aborts).
C16_FontCap ==
    /\ Cardinality(fonts) <= FontCap
    /\ (Cardinality(Requested) > FontCap) <=> (drawpc = "panic")

\* The result d is what the claim says of the ring of radius r for a word of
\* size w x h: on failure no point of the ring is valid; on success the point
\* reported is a valid point of the ring and no point before it is valid.
FirstValid(d, r, w, h) ==
    LET pts == circlePositions(r)
    IN  /\ d.radius = r
        /\ d.failed <=> (\A k \in 1 .. Len(pts) : ~Valid(pts[k], w, h))
        /\ ~d.failed =>
              \E k \in 1 .. Len(pts) :
                  /\ pts[k].x = d.x /\ pts[k].y = d.y
                  /\ Valid(pts[k], w, h)
                  /\ \A j \in 1 .. k - 1 : ~Valid(pts[j], w, h)

\* C17 First valid point of the ring: the result a worker posts for the ring
\* it received carries that ring's radius, reports a failure exactly when no
\* point of the ring is valid, otherwise reports the first valid point in
\* generation order; and the test leaves the index as it was.
C17_FirstValidOnRing ==
    [][\A w \in Workers :
          (wpc[w] = "test" /\ wpc'[w] = "select") =>
              /\ Len(aggCh') = Len(aggCh) + 1
              /\ FirstValid(aggCh'[Len(aggCh')], wdata[w], wordW, wordH)
              /\ grid' = grid]_vars

\* C17 witness: a result in flight reports a success at a point that is not
\* the first of its ring, the earlier points being occupied or off the canvas.
C17_Witness ==
    /\ mainpc = "agg"
    /\ \E k \in 1 .. Len(aggCh) :
          /\ ~aggCh[k].failed
          /\ FirstValid(aggCh[k], aggCh[k].radius, wordW, wordH)
          /\ aggCh[k].x # circlePositions(aggCh[k].radius)[1].x

\* How many workers have received the ring of radius r in this call: those
\* testing it now and those that have posted its result.
Received(r) ==
    Cardinality({w \in Workers : wpc[w] = "test" /\ wdata[w] = r}) + posted[r]

\* How many copies of the ring of radius r wait in workCh.
InWorkCh(r) == Cardinality({k \in 1 .. Len(workCh) : workCh[k] = r})

\* The rings dispatched in this call.
Dispatched == {radii[k] : k \in 1 .. dnext - 1}

\* What the claim says of the dispatch order and of close(workCh): workCh
\* holds the rings dispatched last, in increasing order of radius; workCh is
\* closed at most once, by the dispatcher as it returns, and nothing is sent
\* on it afterwards.
DispatchDiscipline ==
    /\ \A k \in 1 .. Len(workCh) : workCh[k] = radii[dnext - 1 - Len(workCh) + k]
    /\ closeCount <= 1
    /\ workClosed <=> closeCount = 1
    /\ workClosed => dpc = "exited"
    /\ (mainpc \notin {"idle", "panic"} /\ dpc = "exited") => workClosed

\* C18 as stated: every ring dispatched is received by exactly one worker by
\* the time nextPos returns, at most one result per radius is posted, and the
\* dispatch discipline holds.
C18_ExactlyOneReceiver ==
    /\ \A r \in Radii : Received(r) <= 1 /\ posted[r] <= 1
    /\ mainpc = "returned" => \A r \in Dispatched : Received(r) = 1
    /\ DispatchDiscipline

\* C18 amended: every ring dispatched either still waits in workCh or has been
\* received by exactly one worker (a ring left in workCh when the workers stop
\* is received by none), no other ring is received, at most one result per
\* radius is posted, and the dispatch discipline holds.
C18_AtMostOneReceiver ==
    /\ \A r \in Radii :
          /\ posted[r] <= 1
          /\ Received(r) + InWorkCh(r) = (IF r \in Dispatched THEN 1 ELSE 0)
    /\ DispatchDiscipline

\* C18 witness: nextPos returned with a result posted for one ring and
\* another ring left in workCh, received by no worker.
C18_Witness ==
    /\ mainpc = "returned"
    /\ workCh # << >>
    /\ workClosed
    /\ \E r \in Radii : posted[r] = 1
    /\ \E r \in Dispatched : Received(r) = 0

\* C19 A placed word reserves its region: when the last Place call returned
\* true, the index holds at least one rectangle more than when the call began.
C19_PlacedWordReserved ==
    (attempted # << >> /\ drawpc # "panic" /\ mainpc = "idle" /\ placed) =>
        Len(grid) > Len(lastGrid)

\* C20 Placed-state bookkeeping: after NewWordcloud every Pos is the sentinel;
\* a Place call that returns leaves its word's Pos different from the sentinel
\* exactly when it returns true, changes no other word's Pos and raises
\* PlacedCount by one exactly when it returns true; nothing else changes Pos;
\* and a word not yet passed to Place is unplaced.
C20_PlacedBookkeeping ==
    /\ \A k \in 1 .. Len(Pos) : Pos[k] = notPlacedPos
    /\ [][/\ \A k \in 1 .. Len(Pos) :
                (\A j \in 1 .. Len(attempted') : attempted'[j] # k)
                    => Pos'[k] = notPlacedPos
          /\ (attempted' # attempted /\ drawpc' # "panic") =>
                LET k == attempted'[Len(attempted')]
                IN  /\ (Pos'[k] # notPlacedPos) <=> placed'
                    /\ \A j \in 1 .. Len(Pos) : j # k => Pos'[j] = Pos[j]
                    /\ PlacedCount' = PlacedCount + (IF placed' THEN 1 ELSE 0)
          /\ attempted' = attempted => Pos' = Pos]_vars

\* C20 witness: Draw returned early: some words were placed, some Place calls
\* failed, and the words never attempted are unplaced.
C20_Witness ==
    /\ drawpc = "returned"
    /\ Len(attempted) < Len(Pos)
    /\ PlacedCount >= 1
    /\ PlacedCount < Len(attempted)
    /\ \A k \in Len(attempted) + 1 .. Len(Pos) : Pos[k] = notPlacedPos

====
